---- MODULE Spec2Model ----
(***************************************************************************)
(* Student budget tracker (src/app.py): a Flask application with           *)
(* session-based login over two tables, User and Expense.                  *)
(*                                                                         *)
(* Text that the code inspects character by character (usernames, emails,  *)
(* date strings, amount strings) is a sequence of one-character strings;   *)
(* text that is only stored and compared (category, note, flash messages)  *)
(* is a TLA+ string.  A float is a record: a finite value carries its      *)
(* amount in hundredths (the inputs used have at most two decimals, so no  *)
(* binary rounding is modelled), the non-finite values are inf, -inf, nan. *)
(* The database is the default of src/app.py:11, SQLite.                   *)
(***************************************************************************)
EXTENDS Integers, Sequences, FiniteSets, TLC

\* What a failed parse yields (the code raises ValueError).
DateError == [y |-> 0, m |-> 0, d |-> 0]
FloatError == [kind |-> "err", c |-> 0]

(***************************************************************************)
(* Bounds of the model.                                                    *)
(***************************************************************************)
MaxUsers == 2
MaxId == 2

(***************************************************************************)
(* Text helpers.                                                           *)
(***************************************************************************)
Digits == {"0", "1", "2", "3", "4", "5", "6", "7", "8", "9"}

DigitVal ==
  ("0" :> 0) @@ ("1" :> 1) @@ ("2" :> 2) @@ ("3" :> 3) @@ ("4" :> 4) @@
  ("5" :> 5) @@ ("6" :> 6) @@ ("7" :> 7) @@ ("8" :> 8) @@ ("9" :> 9)

DigitChr ==
  (0 :> "0") @@ (1 :> "1") @@ (2 :> "2") @@ (3 :> "3") @@ (4 :> "4") @@
  (5 :> "5") @@ (6 :> "6") @@ (7 :> "7") @@ (8 :> "8") @@ (9 :> "9")

Whitespace == {" "}

RECURSIVE LStrip(_)
LStrip(s) ==
  IF s # << >> /\ Head(s) \in Whitespace THEN LStrip(Tail(s)) ELSE s

RECURSIVE RStrip(_)
RStrip(s) ==
  IF s # << >> /\ s[Len(s)] \in Whitespace
  THEN RStrip(SubSeq(s, 1, Len(s) - 1))
  ELSE s

\* str.strip()
Strip(s) == RStrip(LStrip(s))

AllDigits(s) == \A i \in 1..Len(s) : s[i] \in Digits

RECURSIVE DigitsVal(_)
DigitsVal(s) ==
  IF s = << >> THEN 0
  ELSE 10 * DigitsVal(SubSeq(s, 1, Len(s) - 1)) + DigitVal[s[Len(s)]]

RECURSIVE NatStr(_)
NatStr(n) ==
  IF n < 10 THEN <<DigitChr[n]>> ELSE NatStr(n \div 10) \o <<DigitChr[n % 10]>>

RECURSIVE ZeroPad(_, _)
ZeroPad(s, w) == IF Len(s) >= w THEN s ELSE ZeroPad(<<"0">> \o s, w)

\* The positions of character ch in s.
Positions(s, ch) == {i \in 1..Len(s) : s[i] = ch}

(***************************************************************************)
(* datetime.strptime(s, '%Y-%m-%d').date()                                 *)
(*   %Y  \d\d\d\d                                                          *)
(*   %m  1[0-2]|0[1-9]|[1-9]                                               *)
(*   %d  3[01]|[12]\d|0[1-9]|[1-9]| [1-9]                                  *)
(* and the whole string must be consumed; then datetime's own range check  *)
(* (year >= 1, day within the month).                                      *)
(***************************************************************************)
IsLeap(y) == (y % 4 = 0) /\ ((y % 100 # 0) \/ (y % 400 = 0))

DaysInMonth(y, m) ==
  IF m = 2 THEN (IF IsLeap(y) THEN 29 ELSE 28)
  ELSE IF m \in {4, 6, 9, 11} THEN 30 ELSE 31

MatchYear(p) == Len(p) = 4 /\ AllDigits(p)

MatchMonth(p) ==
  \/ Len(p) = 2 /\ p[1] = "1" /\ p[2] \in {"0", "1", "2"}
  \/ Len(p) = 2 /\ p[1] = "0" /\ p[2] \in Digits \ {"0"}
  \/ Len(p) = 1 /\ p[1] \in Digits \ {"0"}

MatchDay(p) ==
  \/ Len(p) = 2 /\ p[1] = "3" /\ p[2] \in {"0", "1"}
  \/ Len(p) = 2 /\ p[1] \in {"1", "2"} /\ p[2] \in Digits
  \/ Len(p) = 2 /\ p[1] = "0" /\ p[2] \in Digits \ {"0"}
  \/ Len(p) = 1 /\ p[1] \in Digits \ {"0"}
  \/ Len(p) = 2 /\ p[1] = " " /\ p[2] \in Digits \ {"0"}

ParseDate(s) ==
  LET dashes == Positions(s, "-") IN
  IF Cardinality(dashes) # 2 THEN DateError
  ELSE
    LET i == CHOOSE x \in dashes : \A z \in dashes : x <= z
        j == CHOOSE x \in dashes : \A z \in dashes : x >= z
        ys == SubSeq(s, 1, i - 1)
        ms == SubSeq(s, i + 1, j - 1)
        ds == SubSeq(s, j + 1, Len(s))
    IN IF ~(MatchYear(ys) /\ MatchMonth(ms) /\ MatchDay(ds)) THEN DateError
       ELSE
         LET y == DigitsVal(ys)
             m == DigitsVal(ms)
             d == DigitsVal(LStrip(ds))
         IN IF y >= 1 /\ d <= DaysInMonth(y, m)
            THEN [y |-> y, m |-> m, d |-> d]
            ELSE DateError

\* date.isoformat()
IsoFormat(dt) ==
  ZeroPad(NatStr(dt.y), 4) \o <<"-">> \o ZeroPad(NatStr(dt.m), 2)
    \o <<"-">> \o ZeroPad(NatStr(dt.d), 2)

\* Order of two dates.
DateLeq(a, b) ==
  \/ a.y < b.y
  \/ a.y = b.y /\ a.m < b.m
  \/ a.y = b.y /\ a.m = b.m /\ a.d <= b.d

(***************************************************************************)
(* float(s): surrounding whitespace is dropped, then an optional sign,     *)
(* then inf, infinity or nan, or decimal digits with an optional point.    *)
(* Exponents, underscores and upper-case spellings are not among the       *)
(* inputs used here and are not modelled.                                *)
(***************************************************************************)
Fin(c) == [kind |-> "fin", c |-> c]
PosInf == [kind |-> "inf", c |-> 1]
NegInf == [kind |-> "inf", c |-> -1]
NaN == [kind |-> "nan", c |-> 0]

IsFinite(a) == a.kind = "fin"

FloatNeg(a) == IF a.kind \in {"nan", "err"} THEN a ELSE [a EXCEPT !.c = -a.c]

ParseUnsigned(t) ==
  IF t \in {<<"i", "n", "f">>, <<"i", "n", "f", "i", "n", "i", "t", "y">>}
  THEN PosInf
  ELSE IF t = <<"n", "a", "n">> THEN NaN
  ELSE
    LET dots == Positions(t, ".") IN
    IF Cardinality(dots) > 1 THEN FloatError
    ELSE
      LET k == IF dots = {} THEN Len(t) + 1 ELSE CHOOSE x \in dots : TRUE
          ip == SubSeq(t, 1, k - 1)
          fp == SubSeq(t, k + 1, Len(t))
      IN IF ~(AllDigits(ip) /\ AllDigits(fp)) \/ Len(ip) + Len(fp) = 0
            \/ Len(fp) > 2
         THEN FloatError
         ELSE Fin(100 * DigitsVal(ip)
                  + DigitsVal(fp \o (IF Len(fp) = 0 THEN <<"0", "0">>
                                     ELSE IF Len(fp) = 1 THEN <<"0">>
                                     ELSE << >>)))

ParseFloat(s) ==
  LET t == Strip(s) IN
  IF t = << >> THEN FloatError
  ELSE IF Head(t) = "-" THEN FloatNeg(ParseUnsigned(Tail(t)))
  ELSE IF Head(t) = "+" THEN ParseUnsigned(Tail(t))
  ELSE ParseUnsigned(t)

\* f"{amount:.2f}"
Format2f(a) ==
  IF a.kind = "nan" THEN <<"n", "a", "n">>
  ELSE IF a.kind = "inf"
       THEN (IF a.c < 0 THEN <<"-">> ELSE << >>) \o <<"i", "n", "f">>
  ELSE LET m == IF a.c < 0 THEN -a.c ELSE a.c IN
       (IF a.c < 0 THEN <<"-">> ELSE << >>)
         \o NatStr(m \div 100) \o <<".">> \o ZeroPad(NatStr(m % 100), 2)

\* IEEE addition on the modelled values.
FloatAdd(a, b) ==
  IF a.kind = "nan" \/ b.kind = "nan" THEN NaN
  ELSE IF a.kind = "inf" /\ b.kind = "inf"
       THEN (IF a.c = b.c THEN a ELSE NaN)
  ELSE IF a.kind = "inf" THEN a
  ELSE IF b.kind = "inf" THEN b
  ELSE Fin(a.c + b.c)

\* What SUM() yields over no rows, and for a sum that is not a number.
FloatNull == [kind |-> "null", c |-> 0]

RECURSIVE FloatSum(_)
FloatSum(S) ==
  IF S = {} THEN Fin(0)
  ELSE LET r == CHOOSE x \in S : TRUE IN FloatAdd(r.amount, FloatSum(S \ {r}))

\* db.func.sum(Expense.amount) over the rows S on SQLite: NULL over no rows,
\* and NULL when the sum is NaN (inf + -inf).
DbSum(S) ==
  IF S = {} THEN FloatNull
  ELSE LET t == FloatSum(S) IN IF t.kind = "nan" THEN FloatNull ELSE t

\* Python's `x or 0.0` on the value of .scalar().
OrZero(x) == IF x.kind = "null" \/ x = Fin(0) THEN Fin(0) ELSE x

(***************************************************************************)
(* State.                                                                  *)
(***************************************************************************)
VARIABLES
  users,      \* the User table (lines 20-25): records id, username, email,
              \* password_hash
  expenses,   \* the Expense table (lines 33-40): records id, user_id, date,
              \* category, amount, note; created_at is read by no route and
              \* is left out
  session,    \* per browser, the user id its session cookie binds (line 83),
              \* 0 for none
  pending,    \* per browser, a POST /register that has passed the checks of
              \* lines 61-66 and has not yet committed (NoForm: none)
  request,    \* the last request that was answered
  response,   \* and the answer to it
  deleted     \* history, kept by SpecHistory only: the ids of the Expense
              \* rows deleted so far (lines 169-170)

vars == <<users, expenses, session, pending, request, response, deleted>>

Clients == {"c1", "c2"}

NoForm == [none |-> TRUE]
NoData == [none |-> TRUE]

Req(op, method, c, id, form) ==
  [op |-> op, method |-> method, client |-> c, id |-> id, form |-> form]

Redirect(to, msg) ==
  [status |-> "302", flash |-> msg, view |-> to, data |-> NoData]

Render(template, data) ==
  [status |-> "200", flash |-> "", view |-> template, data |-> data]

\* get_or_404 on a missing row.
NotFound == [status |-> "404", flash |-> "", view |-> "", data |-> NoData]

\* An exception no handler catches (IntegrityError on commit, TypeError).
ServerError == [status |-> "500", flash |-> "", view |-> "", data |-> NoData]

\* login_manager.unauthorized() with login_view = 'login'.
Unauthorized == Redirect("login", "Please log in to access this page.")

\* generate_password_hash / check_password_hash: an opaque one-way value
\* that verifies exactly the password it was made from.
GeneratePasswordHash(password) == [pbkdf2 |-> password]
CheckPasswordHash(hash, password) == hash.pbkdf2 = password

\* The integer primary keys: SQLite gives a new row the largest rowid + 1.
MaxOf(S) == IF S = {} THEN 0 ELSE CHOOSE x \in S : \A y \in S : y <= x
NextId(rows) == MaxOf({r.id : r \in rows}) + 1

\* load_user: the user the session cookie names, 0 for an anonymous request.
CurrentUserId(c) ==
  IF \E u \in users : u.id = session[c] THEN session[c] ELSE 0

\* The route without @login_required.
Anonymous_NotRequired(c) == FALSE

\* @login_required: the request is turned away when no user is logged in.
Anonymous(c) == CurrentUserId(c) = 0

Owned(uid) == {e \in expenses : e.user_id = uid}

\* The ownership test with the expense's own id in place of its owner's.
NotOwner_ComparesId(e, uid) == e.id # uid

\* The ownership test of edit_expense and delete_expense.
NotOwner(e, uid) == e.user_id # uid

\* The date's parse failure not caught as a validation failure.
InvalidDate_Ignored(date_obj) == FALSE

\* except Exception around strptime; except ValueError around float().
InvalidDate(date_obj) == date_obj = DateError

InvalidAmount(amount) == amount = FloatError

\* The orders .order_by(Expense.date.desc()) may return the rows S in: the
\* place of rows with equal dates is the database's choice.
DateDescOrders(S) ==
  {q \in [1..Cardinality(S) -> S] :
     /\ \A i, j \in 1..Cardinality(S) : i # j => q[i] # q[j]
     /\ \A i, j \in 1..Cardinality(S) : i < j => DateLeq(q[j].date, q[i].date)}

Respond(req, resp) == request' = req /\ response' = resp

(***************************************************************************)
(* Accounts and sessions.                                                  *)
(***************************************************************************)
\* GET /
Index(c) ==
  /\ pending[c] = NoForm
  /\ Respond(Req("index", "GET", c, 0, NoForm),
             IF CurrentUserId(c) # 0 THEN Redirect("dashboard", "")
             ELSE Render("index.html", NoData))
  /\ UNCHANGED <<users, expenses, session, pending>>

\* The query of line 64.
UserExists(username, email) ==
  \E u \in users : u.username = username \/ u.email = email

\* GET or POST /register up to the query of line 64.  A POST that passes
\* the checks is then in flight: another request can be served before it
\* reaches db.session.commit().
Register(c, method, f) ==
  /\ pending[c] = NoForm
  /\ IF method = "GET"
     THEN /\ Respond(Req("register", method, c, 0, NoForm),
                     Render("register.html", NoData))
          /\ UNCHANGED <<users, expenses, session, pending>>
     ELSE LET username == Strip(f.username)
              email == Strip(f.email)
              password == f.password
          IN IF username = << >> \/ email = << >> \/ password = << >>
             THEN /\ Respond(Req("register", method, c, 0, f),
                             Redirect("register", "Please fill all fields"))
                  /\ UNCHANGED <<users, expenses, session, pending>>
             ELSE IF UserExists(username, email)
             THEN /\ Respond(Req("register", method, c, 0, f),
                             Redirect("register",
                                      "Username or email already exists"))
                  /\ UNCHANGED <<users, expenses, session, pending>>
             ELSE /\ Cardinality(users) < MaxUsers
                  /\ pending' = [pending EXCEPT ![c] = f]
                  /\ UNCHANGED <<users, expenses, session, request, response>>

\* The columns without unique=True.
UniqueViolation_NoConstraint(username, email) == FALSE

\* unique=True on User.username and User.email: the INSERT is refused when
\* a row already has either value.
UniqueViolation(username, email) ==
  \E u \in users : u.username = username \/ u.email = email

\* POST /register from the construction of the User to the redirect.
RegisterCommit(c) ==
  /\ pending[c] # NoForm
  /\ LET f == pending[c]
         username == Strip(f.username)
         email == Strip(f.email)
         user == [id |-> NextId(users), username |-> username,
                  email |-> email,
                  password_hash |-> GeneratePasswordHash(f.password)]
     IN IF UniqueViolation(username, email)
        THEN /\ Respond(Req("register", "POST", c, 0, f), ServerError)
             /\ users' = users
        ELSE /\ Cardinality(users) < MaxUsers
             /\ users' = users \cup {user}
             /\ Respond(Req("register", "POST", c, 0, f),
                        Redirect("login", "Account created. Please login."))
  /\ pending' = [pending EXCEPT ![c] = NoForm]
  /\ UNCHANGED <<expenses, session>>

\* The login email taken as typed.
LoginEmail_NotStripped(f) == f.email

\* request.form['email'].strip() in login.
LoginEmail(f) == Strip(f.email)

\* GET or POST /login
Login(c, method, f) ==
  /\ pending[c] = NoForm
  /\ IF method = "GET"
     THEN /\ Respond(Req("login", method, c, 0, NoForm),
                     Render("login.html", NoData))
          /\ UNCHANGED session
     ELSE LET email == LoginEmail(f)
              found == {u \in users : u.email = email}
          IN IF found # {}
                /\ CheckPasswordHash((CHOOSE u \in found : TRUE).password_hash,
                                     f.password)
             THEN /\ session' =
                       [session EXCEPT ![c] = (CHOOSE u \in found : TRUE).id]
                  /\ Respond(Req("login", method, c, 0, f),
                             Redirect("dashboard", "Logged in successfully."))
             ELSE /\ Respond(Req("login", method, c, 0, f),
                             Redirect("login", "Invalid credentials"))
                  /\ UNCHANGED session
  /\ UNCHANGED <<users, expenses, pending>>

\* GET /logout
Logout(c) ==
  /\ pending[c] = NoForm
  /\ IF Anonymous(c)
     THEN /\ Respond(Req("logout", "GET", c, 0, NoForm), Unauthorized)
          /\ UNCHANGED session
     ELSE /\ session' = [session EXCEPT ![c] = 0]
          /\ Respond(Req("logout", "GET", c, 0, NoForm),
                     Redirect("index", "You have been logged out."))
  /\ UNCHANGED <<users, expenses, pending>>

(***************************************************************************)
(* The expense ledger.                                                     *)
(***************************************************************************)
RecentLimit == 8
PerPage == 20

Take(q, n) == SubSeq(q, 1, IF Len(q) < n THEN Len(q) ELSE n)

Ids(q) == [i \in 1..Len(q) |-> q[i].id]

\* .group_by(Expense.category) with SUM(amount), for one user.
CategoryData(uid) ==
  [cat \in {e.category : e \in Owned(uid)} |->
     DbSum({e \in Owned(uid) : e.category = cat})]

\* float(s) raises TypeError on the None that a NULL sum comes back as.
FloatOfFails(data) == \E cat \in DOMAIN data : data[cat].kind = "null"

\* The total of line 103.
DashboardTotal(uid) == OrZero(DbSum(Owned(uid)))

\* GET /dashboard
Dashboard(c) ==
  /\ pending[c] = NoForm
  /\ LET uid == CurrentUserId(c)
         req == Req("dashboard", "GET", c, 0, NoForm)
     IN IF Anonymous(c) THEN Respond(req, Unauthorized)
        ELSE IF FloatOfFails(CategoryData(uid)) THEN Respond(req, ServerError)
        ELSE \E q \in DateDescOrders(Owned(uid)) :
               Respond(req, Render("dashboard.html",
                                   [recent |-> Ids(Take(q, RecentLimit)),
                                    total |-> DashboardTotal(uid),
                                    sums |-> CategoryData(uid)]))
  /\ UNCHANGED <<users, expenses, session, pending>>

\* request.form.get('note', '')
NoteOf(f) == IF f.hasNote THEN f.note ELSE ""

\* nullable=False on Expense.amount: SQLite binds a NaN as NULL, so the
\* INSERT or UPDATE of a NaN amount is refused with IntegrityError.
NotNullViolation(amount) == amount.kind = "nan"

\* GET or POST /add
AddExpense(c, method, f) ==
  /\ pending[c] = NoForm
  /\ LET uid == CurrentUserId(c)
         req == Req("add_expense", method, c, 0, f)
     IN IF Anonymous(c)
        THEN Respond(req, Unauthorized) /\ UNCHANGED expenses
        ELSE IF method = "GET"
        THEN Respond(req, Render("add_expense.html", NoData))
             /\ UNCHANGED expenses
        ELSE LET date_obj == ParseDate(f.date)
                 amount == ParseFloat(f.amount)
                 e == [id |-> NextId(expenses), user_id |-> uid,
                       date |-> date_obj, category |-> f.category,
                       amount |-> amount, note |-> NoteOf(f)]
             IN IF InvalidDate(date_obj)
                THEN Respond(req, Redirect("add_expense", "Invalid date format"))
                     /\ UNCHANGED expenses
                ELSE IF InvalidAmount(amount)
                THEN Respond(req, Redirect("add_expense", "Invalid amount"))
                     /\ UNCHANGED expenses
                ELSE IF NotNullViolation(amount)
                THEN Respond(req, ServerError) /\ UNCHANGED expenses
                ELSE /\ e.id <= MaxId
                     /\ expenses' = expenses \cup {e}
                     /\ Respond(req, Redirect("dashboard", "Expense added"))
  /\ UNCHANGED <<users, session, pending>>

\* The assignments made before the failure written to the table.
Uncommitted_Flushed(old, e) == (expenses \ {old}) \cup {e}

\* What a request leaves in the table when it returns without
\* db.session.commit(): the request's session is removed at teardown and the
\* assignments made to the loaded object `e` are dropped with it.
Uncommitted(old, e) == expenses

\* db.session.commit() after assignments to the loaded object.
Committed(old, e) == (expenses \ {old}) \cup {e}

\* GET or POST /edit/<expense_id>
EditExpense(c, expense_id, method, f) ==
  /\ pending[c] = NoForm
  /\ LET uid == CurrentUserId(c)
         req == Req("edit_expense", method, c, expense_id, f)
         found == {e \in expenses : e.id = expense_id}
     IN IF Anonymous(c)
        THEN Respond(req, Unauthorized) /\ UNCHANGED expenses
        ELSE IF found = {}
        THEN Respond(req, NotFound) /\ UNCHANGED expenses
        ELSE LET e0 == CHOOSE e \in found : TRUE
                 date_obj == ParseDate(f.date)
                 amount == ParseFloat(f.amount)
                 e1 == [e0 EXCEPT !.date = date_obj]
                 e2 == [e1 EXCEPT !.category = f.category]
                 e3 == [e2 EXCEPT !.amount = amount]
                 e4 == [e3 EXCEPT !.note = NoteOf(f)]
             IN IF NotOwner(e0, uid)
                THEN Respond(req, Redirect("dashboard", "Not authorised"))
                     /\ UNCHANGED expenses
                ELSE IF method = "GET"
                THEN Respond(req, Render("edit_expense.html", e0))
                     /\ UNCHANGED expenses
                ELSE IF InvalidDate(date_obj)
                THEN /\ Respond(req, Redirect("edit_expense", "Invalid date"))
                     /\ expenses' = Uncommitted(e0, e0)
                ELSE IF InvalidAmount(amount)
                THEN /\ Respond(req, Redirect("edit_expense", "Invalid amount"))
                     /\ expenses' = Uncommitted(e0, e2)
                ELSE IF NotNullViolation(amount)
                THEN /\ Respond(req, ServerError)
                     /\ expenses' = Uncommitted(e0, e4)
                ELSE /\ expenses' = Committed(e0, e4)
                     /\ Respond(req, Redirect("expenses", "Expense updated"))
  /\ UNCHANGED <<users, session, pending>>

\* POST /delete/<expense_id>
DeleteExpense(c, expense_id) ==
  /\ pending[c] = NoForm
  /\ LET uid == CurrentUserId(c)
         req == Req("delete_expense", "POST", c, expense_id, NoForm)
         found == {e \in expenses : e.id = expense_id}
     IN IF Anonymous(c)
        THEN Respond(req, Unauthorized) /\ UNCHANGED expenses
        ELSE IF found = {}
        THEN Respond(req, NotFound) /\ UNCHANGED expenses
        ELSE IF NotOwner(CHOOSE e \in found : TRUE, uid)
        THEN Respond(req, Redirect("expenses", "Not authorised"))
             /\ UNCHANGED expenses
        ELSE /\ expenses' = expenses \ found
             /\ Respond(req, Redirect("expenses", "Expense deleted"))
  /\ UNCHANGED <<users, session, pending>>

\* paginate(page, per_page, error_out=False): a page below 1 is page 1, a
\* page past the end is empty.
Paginate(q, page) ==
  LET p == IF page < 1 THEN 1 ELSE page
      lo == (p - 1) * PerPage + 1
      hi == IF p * PerPage < Len(q) THEN p * PerPage ELSE Len(q)
  IN SubSeq(q, lo, hi)

\* GET /expenses?page=N
Expenses(c, page) ==
  /\ pending[c] = NoForm
  /\ LET uid == CurrentUserId(c)
         req == Req("expenses", "GET", c, page, NoForm)
     IN IF Anonymous(c) THEN Respond(req, Unauthorized)
        ELSE \E q \in DateDescOrders(Owned(uid)) :
               Respond(req, Render("expenses.html",
                                   [items |-> Ids(Paginate(q, page))]))
  /\ UNCHANGED <<users, expenses, session, pending>>

CsvHeader == <<"id", "date", "category", "amount", "note">>

CsvRow(ex) ==
  [id |-> ex.id, date |-> IsoFormat(ex.date), category |-> ex.category,
   amount |-> Format2f(ex.amount), note |-> ex.note]

\* The query of line 193, before its ordering.
ExportQuery(uid) == Owned(uid)

\* GET /export
ExportExpenses(c) ==
  /\ pending[c] = NoForm
  /\ LET uid == CurrentUserId(c)
         req == Req("export_expenses", "GET", c, 0, NoForm)
     IN IF Anonymous(c) THEN Respond(req, Unauthorized)
        ELSE \E q \in DateDescOrders(ExportQuery(uid)) :
               Respond(req, [status |-> "200", flash |-> "",
                             view |-> "expenses.csv",
                             data |-> [header |-> CsvHeader,
                                       rows |-> [i \in 1..Len(q) |->
                                                   CsvRow(q[i])]]])
  /\ UNCHANGED <<users, expenses, session, pending>>

\* GET /api/category-summary
CategorySummary(c) ==
  /\ pending[c] = NoForm
  /\ LET uid == CurrentUserId(c)
         req == Req("category_summary", "GET", c, 0, NoForm)
     IN IF Anonymous(c) THEN Respond(req, Unauthorized)
        ELSE IF FloatOfFails(CategoryData(uid)) THEN Respond(req, ServerError)
        ELSE Respond(req, Render("json", [sums |-> CategoryData(uid)]))
  /\ UNCHANGED <<users, expenses, session, pending>>

(***************************************************************************)
(* The requests the browsers send.                                         *)
(***************************************************************************)
Al == <<"a", "l">>
Bo == <<"b", "o">>
Cy == <<"c", "y">>
AlMail == <<"a", "@", "x">>
BoMail == <<"b", "@", "x">>
CyMail == <<"c", "@", "x">>
Pw1 == <<"p", "1">>
Pw2 == <<"p", "2">>

RegForms ==
  { [username |-> <<" ">> \o Al, email |-> AlMail \o <<" ">>, password |-> Pw1],
    [username |-> Bo, email |-> BoMail, password |-> Pw2],
    [username |-> Al, email |-> CyMail, password |-> Pw2],
    [username |-> Cy, email |-> CyMail, password |-> Pw1],
    [username |-> <<" ", " ">>, email |-> BoMail, password |-> Pw1],
    [username |-> Bo, email |-> BoMail, password |-> << >>] }

LoginForms ==
  { [email |-> AlMail, password |-> Pw1],
    [email |-> <<" ">> \o AlMail, password |-> Pw1],
    [email |-> AlMail, password |-> Pw2],
    [email |-> BoMail, password |-> Pw2],
    [email |-> BoMail, password |-> Pw1],
    [email |-> CyMail, password |-> Pw2],
    [email |-> CyMail, password |-> << >>] }

Jan15 == <<"2", "0", "2", "5", "-", "0", "1", "-", "1", "5">>
Jan5 == <<"2", "0", "2", "5", "-", "1", "-", "5">>
Feb1 == <<"2", "0", "2", "5", "-", "0", "2", "-", "0", "1">>
Feb30 == <<"2", "0", "2", "5", "-", "0", "2", "-", "3", "0">>
NotADate == <<"n", "o", "t", "-", "a", "-", "d", "a", "t", "e">>

ExpForm(date, category, amount, hasNote, note) ==
  [date |-> date, category |-> category, amount |-> amount,
   hasNote |-> hasNote, note |-> note]

ValidForms ==
  { ExpForm(Jan15, "Food", <<"1", "2", ".", "5">>, TRUE, "Lunch"),
    ExpForm(Jan5, "Rent", <<" ", "i", "n", "f">>, FALSE, ""),
    ExpForm(Feb1, "Food", <<"-", "i", "n", "f">>, TRUE, "Owed") }

InvalidForms ==
  { ExpForm(NotADate, "Food", <<"5", "0">>, TRUE, "Bad date"),
    ExpForm(Feb30, "Rent", <<"5", "0">>, TRUE, "No such day"),
    ExpForm(Feb1, "Books", <<"1", "2", ",", "5">>, TRUE, "Bad amount") }

\* An amount that float() accepts and the database refuses.
NanForms == { ExpForm(Feb1, "Books", <<"n", "a", "n">>, TRUE, "Not a number") }

ExpForms == ValidForms \cup InvalidForms \cup NanForms

ExpenseIds == 1..MaxId

(***************************************************************************)
(* Accounts and sessions from an empty database, two browsers.  The        *)
(* expense forms sent here are the invalid ones, so the ledger stays       *)
(* empty; SpecLedger below is the ledger with rows in it.                  *)
(***************************************************************************)
NoRequest == Req("", "", "", 0, NoForm)
NoResponse == [status |-> "", flash |-> "", view |-> "", data |-> NoData]

Init ==
  /\ users = {}
  /\ expenses = {}
  /\ session = [c \in Clients |-> 0]
  /\ pending = [c \in Clients |-> NoForm]
  /\ request = NoRequest
  /\ response = NoResponse
  /\ deleted = {}

Next ==
  \E c \in Clients :
    \/ Index(c) /\ UNCHANGED deleted
    \/ Register(c, "GET", NoForm) /\ UNCHANGED deleted
    \/ (\E f \in RegForms : Register(c, "POST", f)) /\ UNCHANGED deleted
    \/ RegisterCommit(c) /\ UNCHANGED deleted
    \/ Login(c, "GET", NoForm) /\ UNCHANGED deleted
    \/ (\E f \in LoginForms : Login(c, "POST", f)) /\ UNCHANGED deleted
    \/ Logout(c) /\ UNCHANGED deleted
    \/ Dashboard(c) /\ UNCHANGED deleted
    \/ AddExpense(c, "GET", NoForm) /\ UNCHANGED deleted
    \/ (\E f \in InvalidForms : AddExpense(c, "POST", f)) /\ UNCHANGED deleted
    \/ (\E id \in ExpenseIds : EditExpense(c, id, "GET", NoForm))
         /\ UNCHANGED deleted
    \/ (\E id \in ExpenseIds, f \in InvalidForms :
          EditExpense(c, id, "POST", f)) /\ UNCHANGED deleted
    \/ (\E id \in ExpenseIds : DeleteExpense(c, id)) /\ UNCHANGED deleted
    \/ Expenses(c, 1) /\ UNCHANGED deleted
    \/ ExportExpenses(c) /\ UNCHANGED deleted
    \/ CategorySummary(c) /\ UNCHANGED deleted

Spec == Init /\ [][Next]_vars

(***************************************************************************)
(* The ledger with two accounts registered: every expense form, one        *)
(* browser that logs in as either user.                                    *)
(***************************************************************************)
Alice == [id |-> 1, username |-> Al, email |-> AlMail,
          password_hash |-> GeneratePasswordHash(Pw1)]
Bob == [id |-> 2, username |-> Bo, email |-> BoMail,
        password_hash |-> GeneratePasswordHash(Pw2)]

LedgerLogins ==
  { [email |-> AlMail, password |-> Pw1],
    [email |-> BoMail, password |-> Pw2],
    [email |-> BoMail, password |-> Pw1] }

Pages == {0, 2}

InitLedger ==
  /\ users = {Alice, Bob}
  /\ expenses = {}
  /\ session = [c \in Clients |-> 0]
  /\ pending = [c \in Clients |-> NoForm]
  /\ request = NoRequest
  /\ response = NoResponse
  /\ deleted = {}

NextLedger ==
  \E c \in {"c1"} :
    \/ (\E f \in LedgerLogins : Login(c, "POST", f)) /\ UNCHANGED deleted
    \/ Logout(c) /\ UNCHANGED deleted
    \/ Dashboard(c) /\ UNCHANGED deleted
    \/ AddExpense(c, "GET", NoForm) /\ UNCHANGED deleted
    \/ (\E f \in ExpForms : AddExpense(c, "POST", f)) /\ UNCHANGED deleted
    \/ (\E id \in ExpenseIds : EditExpense(c, id, "GET", NoForm))
         /\ UNCHANGED deleted
    \/ (\E id \in ExpenseIds, f \in ExpForms : EditExpense(c, id, "POST", f))
         /\ UNCHANGED deleted
    \/ (\E id \in ExpenseIds : DeleteExpense(c, id)) /\ UNCHANGED deleted
    \/ (\E page \in Pages : Expenses(c, page)) /\ UNCHANGED deleted
    \/ ExportExpenses(c) /\ UNCHANGED deleted
    \/ CategorySummary(c) /\ UNCHANGED deleted

SpecLedger == InitLedger /\ [][NextLedger]_vars

(***************************************************************************)
(* The ledger again, with the history of deleted ids kept: the routes that *)
(* create, delete and list rows.                                           *)
(***************************************************************************)
RowIds(rows) == {e.id : e \in rows}

\* The step's deleted rows join the history.
Track == deleted' = deleted \cup (RowIds(expenses) \ RowIds(expenses'))

NextHistory ==
  \E c \in {"c1"} :
    \/ (\E f \in LedgerLogins : Login(c, "POST", f)) /\ Track
    \/ (\E f \in ValidForms : AddExpense(c, "POST", f)) /\ Track
    \/ (\E id \in ExpenseIds : DeleteExpense(c, id)) /\ Track
    \/ ExportExpenses(c) /\ Track

SpecHistory == InitLedger /\ [][NextHistory]_vars

(***************************************************************************)
(* Properties.  In a step, the unprimed variables are the state the        *)
(* request met and request', response' are the request and its answer.     *)
(***************************************************************************)
\* The step answers a request (it is not a registration going in flight).
Answers == \A c \in Clients : pending[c] = NoForm => pending'[c] = NoForm

Post(op) == Answers /\ request'.op = op /\ request'.method = "POST"

\* The user the request's browser was logged in as when the request came.
Requester == CurrentUserId(request'.client)

Target == {e \in expenses : e.id = request'.id}

\* C1: an edit (GET or POST) or delete request by a logged-in user against
\* an Expense that another user owns is answered with the redirect that
\* flashes 'Not authorised', and the Expense is still stored afterwards with
\* the same date, category, amount, note and owner.
C1_ForeignExpenseUntouched ==
  [][(/\ Answers
      /\ request'.op \in {"edit_expense", "delete_expense"}
      /\ Requester # 0
      /\ \E e \in Target : e.user_id # Requester)
     => (/\ response'.status = "302"
         /\ response'.flash = "Not authorised"
         /\ Target \subseteq expenses'
         /\ expenses' = expenses)]_vars

C1_Witness ==
  /\ request.op = "edit_expense" /\ request.method = "POST"
  /\ request.form \in ValidForms
  /\ response.flash = "Not authorised"
  /\ \E e \in expenses :
       /\ e.id = request.id
       /\ CurrentUserId(request.client) \notin {0, e.user_id}
       /\ e.category # request.form.category

\* C2: a POST /add by a logged-in user whose date string does not parse, or
\* whose amount string does not parse as a number, is redirected back to the
\* add form and the Expense table is exactly what it was.
C2_InvalidAddInsertsNothing ==
  [][(/\ Post("add_expense")
      /\ Requester # 0
      /\ \/ ParseDate(request'.form.date) = DateError
         \/ ParseFloat(request'.form.amount) = FloatError)
     => (/\ response'.status = "302"
         /\ response'.view = "add_expense"
         /\ response'.flash \in {"Invalid date format", "Invalid amount"}
         /\ expenses' = expenses)]_vars

C2_Witness ==
  /\ request.op = "add_expense" /\ request.method = "POST"
  /\ ParseDate(request.form.date) # DateError
  /\ ParseFloat(request.form.amount) = FloatError
  /\ response.flash = "Invalid amount"
  /\ expenses # {}

\* C3: every stored Expense has a finite amount.
C3_StoredAmountsFinite == \A e \in expenses : IsFinite(e.amount)

\* The Expense a successful POST /add stores.
Added ==
  [id |-> NextId(expenses), user_id |-> Requester,
   date |-> ParseDate(request'.form.date),
   category |-> request'.form.category,
   amount |-> ParseFloat(request'.form.amount),
   note |-> NoteOf(request'.form)]

\* C4: a POST /add by a logged-in user with a date that parses and an amount
\* that parses as a number adds exactly one Expense, owned by that user and
\* carrying the submitted date, category, amount and note, leaves the other
\* Expenses as they were, and answers 'Expense added' with a redirect to the
\* dashboard.
C4_ValidAddInsertsOne ==
  [][(/\ Post("add_expense")
      /\ Requester # 0
      /\ ParseDate(request'.form.date) # DateError
      /\ ParseFloat(request'.form.amount) # FloatError)
     => (/\ expenses' = expenses \cup {Added}
         /\ Cardinality(expenses') = Cardinality(expenses) + 1
         /\ response' = Redirect("dashboard", "Expense added"))]_vars

AccountCreated == Redirect("login", "Account created. Please login.")
LoggedIn == Redirect("dashboard", "Logged in successfully.")

\* No stored User has the username or the email.
Unused(username, email) ==
  \A u \in users : u.username # username /\ u.email # email

\* The registration answered by this step created the User it asked for.
RegistrationSucceeds ==
  /\ response' = AccountCreated
  /\ \E u \in users' \ users :
       /\ u.username = Strip(request'.form.username)
       /\ u.email = Strip(request'.form.email)
       /\ users' = users \cup {u}

\* The last answered request created an account, and this step is a login
\* with the email and password of that registration.
LoginFollowsRegistration ==
  /\ request.op = "register"
  /\ response = AccountCreated
  /\ Post("login")
  /\ Strip(request'.form.email) = Strip(request.form.email)
  /\ request'.form.password = request.form.password

LoginSucceeds ==
  /\ response' = LoggedIn
  /\ \E u \in users :
       /\ u.email = Strip(request.form.email)
       /\ u.username = Strip(request.form.username)
       /\ session'[request'.client] = u.id

\* C5 as stated: a registration with a non-empty username and email that no
\* User has creates the account, and the login that follows with the same
\* email and password is bound to the new User.
C5_RegisterThenLogin_AsStated ==
  [][/\ (/\ Post("register")
         /\ request'.form.username # << >>
         /\ request'.form.email # << >>
         /\ Unused(Strip(request'.form.username), Strip(request'.form.email)))
        => RegistrationSucceeds
     /\ LoginFollowsRegistration => LoginSucceeds]_vars

\* C5, amended: a registration whose username and email are non-empty once
\* surrounding whitespace is trimmed, whose password is non-empty, and whose
\* trimmed username and email no User has when the row is inserted, creates
\* the account ('Account created'); the login that follows with the same
\* email and password succeeds ('Logged in successfully', redirect to the
\* dashboard) and binds the session to the new User's id.
C5_RegisterThenLogin ==
  [][/\ (/\ Post("register")
         /\ Strip(request'.form.username) # << >>
         /\ Strip(request'.form.email) # << >>
         /\ request'.form.password # << >>
         /\ Unused(Strip(request'.form.username), Strip(request'.form.email)))
        => RegistrationSucceeds
     /\ LoginFollowsRegistration => LoginSucceeds]_vars

C5_Witness ==
  /\ request.op = "login"
  /\ response = LoggedIn
  /\ request.form.email # Strip(request.form.email)
  /\ Cardinality(users) = 2
  /\ session[request.client] = MaxOf({u.id : u \in users})

Protected ==
  {"logout", "dashboard", "add_expense", "edit_expense", "delete_expense",
   "expenses", "export_expenses", "category_summary"}

\* C6: a request to a protected route from a browser with no session is
\* redirected to the login page with no data and changes neither table nor
\* any session; a session comes to name a user only by a POST /login from
\* that browser with that user's email and password; logout by a logged-in
\* browser ends its session.
C6_SessionRequired ==
  [][Answers =>
       /\ (request'.op \in Protected /\ session[request'.client] = 0)
            => (/\ response' = Unauthorized
                /\ response'.data = NoData
                /\ users' = users
                /\ expenses' = expenses
                /\ session' = session)
       /\ \A c \in Clients :
            (session'[c] # session[c] /\ session'[c] # 0)
              => (/\ request'.op = "login"
                  /\ request'.method = "POST"
                  /\ request'.client = c
                  /\ response' = LoggedIn
                  /\ \E u \in users :
                       /\ u.id = session'[c]
                       /\ u.email = Strip(request'.form.email)
                       /\ CheckPasswordHash(u.password_hash,
                                            request'.form.password))
       /\ (request'.op = "logout" /\ session[request'.client] # 0)
            => session'[request'.client] = 0]_vars

C6_Witness ==
  /\ request.op = "delete_expense"
  /\ response = Unauthorized
  /\ session[request.client] = 0
  /\ \E e \in expenses : e.id = request.id

UsersUnique(U) ==
  \A u, v \in U : u # v => (u.username # v.username /\ u.email # v.email)

\* C7: after every step no two Users share a username or an email; a step
\* adds no User whose username or email a stored User already has, and a
\* POST /register whose username or email a stored User has leaves the User
\* table as it was.
C7_UsernamesAndEmailsUnique ==
  [][/\ UsersUnique(users')
     /\ \A u \in users' \ users : Unused(u.username, u.email)
     /\ (/\ Post("register")
         /\ ~Unused(Strip(request'.form.username), Strip(request'.form.email)))
        => users' = users]_vars

\* Two registrations with one username were in flight together and the
\* second to commit was refused.
C7_Witness ==
  /\ request.op = "register"
  /\ response = ServerError
  /\ \E u \in users : u.username = Strip(request.form.username)
  /\ \A u \in users : u.email # Strip(request.form.email)

\* C8: the total the dashboard shows a logged-in user is the sum of the
\* amounts of the Expenses that user owns (0 when there are none).
C8_DashboardTotalIsSum ==
  (request.op = "dashboard" /\ CurrentUserId(request.client) # 0)
    => (/\ response.status = "200"
        /\ response.data.total = FloatSum(Owned(CurrentUserId(request.client))))

\* C9: the rows of the export sent to a logged-in user are one for each
\* Expense the user owns, carrying its id, and no row carries the id of a
\* deleted Expense.
C9_ExportRowsAreOwnExpenses ==
  (request.op = "export_expenses" /\ CurrentUserId(request.client) # 0)
    => (/\ response.status = "200"
        /\ LET rows == response.data.rows
               own == Owned(CurrentUserId(request.client))
           IN /\ Len(rows) = Cardinality(own)
              /\ {rows[i].id : i \in 1..Len(rows)} = RowIds(own)
              /\ \A i \in 1..Len(rows) : rows[i].id \notin deleted)

\* The Expense a successful POST /edit stores in place of `old`.
Edited(old) ==
  [old EXCEPT !.date = ParseDate(request'.form.date),
              !.category = request'.form.category,
              !.amount = ParseFloat(request'.form.amount),
              !.note = NoteOf(request'.form)]

\* C10: a POST /edit/<id> by the owner whose date does not parse, or whose
\* amount does not parse, is redirected back to the edit form and leaves the
\* Expense table exactly as it was; and whatever row a later step stores is
\* the whole of that step's own form (a successful add or edit), so nothing
\* assigned by a failed edit is written afterwards.
C10_FailedEditChangesNothing ==
  [][/\ (/\ Post("edit_expense")
         /\ Requester # 0
         /\ \E e \in Target : e.user_id = Requester
         /\ \/ ParseDate(request'.form.date) = DateError
            \/ ParseFloat(request'.form.amount) = FloatError)
        => (/\ expenses' = expenses
            /\ response'.status = "302"
            /\ response'.view = "edit_expense"
            /\ response'.flash \in {"Invalid date", "Invalid amount"})
     /\ \A e \in expenses' \ expenses :
          /\ request'.method = "POST"
          /\ \/ request'.op = "add_expense" /\ e = Added
             \/ /\ request'.op = "edit_expense"
                /\ \E old \in Target : e = Edited(old)]_vars

C10_Witness ==
  /\ request.op = "edit_expense" /\ request.method = "POST"
  /\ response.flash = "Invalid amount"
  /\ \E e \in expenses :
       /\ e.id = request.id
       /\ e.user_id = CurrentUserId(request.client)
       /\ e.date # ParseDate(request.form.date)
       /\ e.category # request.form.category

====
